---- MODULE Spec2Model ----
(***************************************************************************)
(* Model of the devi pull-request review agent: the diff position          *)
(* resolver and review poster of src/providers.ts (ReviewEngineCore), the  *)
(* response extractor of src/scripts/smartfix/engines/analyser.ts and the  *)
(* finding filter and review poster of src/review-engine.ts.               *)
(*                                                                         *)
(* Each component is a pure function or a single handler, so each has a    *)
(* specification of its own whose Init draws the inputs from bounded sets  *)
(* and whose actions run the code on them.  The variables of the other     *)
(* components stay at their idle values.                                   *)
(***************************************************************************)
EXTENDS Integers, Sequences, FiniteSets, TLC

VARIABLES
    rpc,          \* resolver: "call" before getPositionInDiff runs, "done" after
    patch,        \* resolver: the patch text, as its sequence of lines
    targetLine,   \* resolver: the new-file line asked for
    resolved,     \* resolver: what getPositionInDiff returned
    epc,          \* extractor: "call" before parseLLMResponse runs, "done" after
    responseText, \* extractor: the model's response text, as its sequence of tokens
    extracted,    \* extractor: how parseLLMResponse ended (a value, or a raised error)
    cpc,          \* classifier: "call" before parseReviewResponse runs, "done" after
    response,     \* classifier: the model's review response
    validFindings, \* classifier: what parseReviewResponse returned
    ppc,          \* poster: "call" before postReview runs, "done" after
    handler,      \* poster: which postReview ran, "core" (ReviewEngineCore) or "engine" (ReviewEngine)
    findings,     \* poster: the findings passed to postReview
    filePatches,  \* poster: ReviewEngineCore's map from filename to patch
    reviewBody,   \* poster: the body text postReview built
    inlineComments, \* poster: the comments list postReview built
    calls,        \* poster: the posting calls made, in order
    postRaised,   \* poster: whether postReview ended by throwing
    rejected,     \* poster: the indexes in calls of the calls that were rejected
    gpc,          \* provider: "call", "received" (the response is in), "done"
    httpResponse, \* provider: the HTTP response fetch resolved with
    gRequests,    \* provider: the HTTP requests issued by this call
    generated,    \* provider: how generateReview ended
    bpc,          \* batch: "loop" (at the for test), "waiting" (fetch pending), "done"
    groups,       \* batch: the input error groups
    streaming,    \* batch: config.streaming
    groupIndex,   \* batch: the 1-based index of the group in hand (i + 1)
    inFlight,     \* batch: the indexes of the groups whose request is pending
    results,      \* batch: the fixes pushed so far
    streamLines,  \* batch: the lines of the last streamed body
    output,       \* batch: the text collected from the last streamed body
    rawResponse,  \* batch: the raw response text of the last answered request
    hpc,          \* handler: "event", "engine", "listed", "reviewed", "raised" (in
                  \*   the handler's catch), "done", "unhandled", "exited"
    promptFile,   \* handler: the state of prompts/pr-review.md
    providerConfigured, \* handler: whether getLLMProvider returns a provider
    prFiles,      \* handler: the files listFiles returns for the pull request
    relevantFiles,\* handler: the files filterFiles kept
    llmRequests   \* handler: the model requests issued in this review cycle

resolveVars == <<rpc, patch, targetLine, resolved>>
extractVars == <<epc, responseText, extracted>>
classifyVars == <<cpc, response, validFindings>>
postVars ==
    <<ppc, handler, findings, filePatches, reviewBody, inlineComments, calls, postRaised,
      rejected>>
providerVars == <<gpc, httpResponse, gRequests, generated>>
batchVars ==
    <<bpc, groups, streaming, groupIndex, inFlight, results, streamLines, output,
      rawResponse>>
reviewVars == <<hpc, promptFile, providerConfigured, prFiles, relevantFiles, llmRequests>>
laterVars == <<providerVars, batchVars, reviewVars>>
vars == <<resolveVars, extractVars, classifyVars, postVars, laterVars>>

(***************************************************************************)
(* Bounds.                                                                 *)
(***************************************************************************)
MaxPatchLen == 4
MaxStart == 2
MaxTarget == 4
MaxTextLen == 5
MaxCandidates == 2
MaxFindings == 2

\* JavaScript's undefined / a value that is not there.
UNDEF == "undefined"

(***************************************************************************)
(* Patch text.  patch.split('\n') gives the lines; a line is modelled by   *)
(* what the two regular expressions and the startsWith tests can see:      *)
(*   hunk   "@@ -o,p +start,len @@"  matches both hunk regexes             *)
(*   at     starts with "@@" but matches neither regex ("@@ -1 +1 @@")     *)
(*   add    starts with "+"                                                *)
(*   ctx    starts with " "                                                *)
(*   del    starts with "-"                                                *)
(*   other  anything else ("\ No newline at end of file", "")              *)
(***************************************************************************)
\* A deleted file's header is "+0,0".
HunkStarts == 0..MaxStart
DeclaredLens == {1, 3}

HunkLine(n, q) == [kind |-> "hunk", start |-> n, len |-> q]
PlainLine(k) == [kind |-> k, start |-> 0, len |-> 0]

PatchLines ==
    {HunkLine(n, q) : n \in HunkStarts, q \in DeclaredLens}
        \cup {PlainLine(k) : k \in {"at", "add", "ctx", "del", "other"}}

SeqsUpTo(S, n) == UNION {[1..k -> S] : k \in 0..n}

Patches == SeqsUpTo(PatchLines, MaxPatchLen)

\* "@@ -1,2 +1,3 @@\n line1\n+line2\n line3"
ScenarioPatch ==
    <<HunkLine(1, 3), PlainLine("ctx"), PlainLine("add"), PlainLine("ctx")>>
Targets == 0..MaxTarget

\* return null
NOT_FOUND == 0

\* line.startsWith('@@')
startsWithAt(line) == line.kind \in {"hunk", "at"}

\* line.match(/@@ -\d+,\d+ \+(\d+)/)
hunkMatch(line) == line.kind = "hunk"

\* line.startsWith('+') || line.startsWith(' ')
isAddOrContext(line) == line.kind \in {"add", "ctx"}

(***************************************************************************)
(* getPositionInDiff: the for loop, one recursion per iteration.  i is the *)
(* 1-based index of the line about to be read; position and currentLine    *)
(* are the loop's two counters.  scanHeaderUncounted is the same loop with *)
(* position++ skipped on "@@" lines.                                       *)
(***************************************************************************)
RECURSIVE scanHeaderUncounted(_, _, _, _, _)
scanHeaderUncounted(lines, i, currentLine, position, target) ==
    IF i > Len(lines) THEN NOT_FOUND
    ELSE LET line == lines[i] IN
         IF startsWithAt(line)
         THEN scanHeaderUncounted(lines, i + 1,
                  IF hunkMatch(line) THEN line.start - 1 ELSE currentLine,
                  position, target)
         ELSE IF isAddOrContext(line)
         THEN IF currentLine + 1 = target
              THEN position + 1
              ELSE scanHeaderUncounted(lines, i + 1, currentLine + 1, position + 1, target)
         ELSE scanHeaderUncounted(lines, i + 1, currentLine, position + 1, target)

RECURSIVE scanLines(_, _, _, _, _)
scanLines(lines, i, currentLine, position, target) ==
    IF i > Len(lines) THEN NOT_FOUND
    ELSE LET line == lines[i]
             pos == position + 1
         IN  IF startsWithAt(line)
             THEN scanLines(lines, i + 1,
                      IF hunkMatch(line) THEN line.start - 1 ELSE currentLine,
                      pos, target)
             ELSE IF isAddOrContext(line)
             THEN IF currentLine + 1 = target
                  THEN pos
                  ELSE scanLines(lines, i + 1, currentLine + 1, pos, target)
             ELSE scanLines(lines, i + 1, currentLine, pos, target)

\* getPositionInDiff with the position counted from the line below the header.
getPositionHeaderUncounted(p, target) == scanHeaderUncounted(p, 1, 0, 0, target)

getPositionInDiff(p, target) == scanLines(p, 1, 0, 0, target)

\* isLineInHunk: some hunk header's [start, start + len) holds the line.
isLineInHunk(p, line) ==
    \E i \in 1..Len(p) :
        /\ p[i].kind = "hunk"
        /\ line >= p[i].start
        /\ line < p[i].start + p[i].len

(***************************************************************************)
(* Response text.  The text is modelled by the tokens JSON.parse and the   *)
(* two regular expressions of parseLLMResponse tell apart:                 *)
(*   fence  "```"                                                          *)
(*   json   the word "json" (the tag of a fence; prose anywhere else)      *)
(*   lb     "{"            rb  "}"                                         *)
(*   val    a JSON value that holds no brace (1, "s", [1,2], null)         *)
(*   word   prose: text that is no JSON and holds no brace or fence        *)
(*   ws     whitespace, a newline included                                 *)
(* "{" value "}" stands for an object with that member value.              *)
(***************************************************************************)
Tokens == {"fence", "json", "lb", "rb", "val", "word", "ws"}
Texts == SeqsUpTo(Tokens, MaxTextLen)

RECURSIVE stripWs(_)
stripWs(s) ==
    IF s = <<>> THEN <<>>
    ELSE IF Head(s) = "ws" THEN stripWs(Tail(s))
    ELSE <<Head(s)>> \o stripWs(Tail(s))

RECURSIVE trimStart(_)
trimStart(s) ==
    IF s # <<>> /\ Head(s) = "ws" THEN trimStart(Tail(s)) ELSE s

RECURSIVE trimEnd(_)
trimEnd(s) ==
    IF s # <<>> /\ s[Len(s)] = "ws" THEN trimEnd(SubSeq(s, 1, Len(s) - 1)) ELSE s

\* String.prototype.trim
trim(s) == trimEnd(trimStart(s))

\* The JSON grammar on texts without whitespace.
RECURSIVE isJsonValue(_)
isJsonValue(s) ==
    \/ s = <<"val">>
    \/ /\ Len(s) >= 2
       /\ s[1] = "lb"
       /\ s[Len(s)] = "rb"
       /\ (Len(s) = 2 \/ isJsonValue(SubSeq(s, 2, Len(s) - 1)))

\* JSON.parse: the value (the text without its whitespace), or a SyntaxError.
JSONparse(s) ==
    LET t == stripWs(s)
    IN  IF isJsonValue(t) THEN [ok |-> TRUE, value |-> t]
        ELSE [ok |-> FALSE, value |-> <<>>]

\* How a call ends: a parsed JSON value, the free-text record, or a raised error.
Parsed(v) ==
    [kind |-> "json", value |-> v, confidence |-> UNDEF, fixType |-> UNDEF,
     description |-> <<>>]
FreeText(d) ==
    [kind |-> "fallback", value |-> <<>>, confidence |-> "low",
     fixType |-> "suggestion", description |-> d]
Raised ==
    [kind |-> "throw", value |-> <<>>, confidence |-> UNDEF, fixType |-> UNDEF,
     description |-> <<>>]
NoResult ==
    [kind |-> "none", value |-> <<>>, confidence |-> UNDEF, fixType |-> UNDEF,
     description |-> <<>>]

NoSolutionGenerated == <<"No solution generated">>

FenceIndexes(s) == {i \in 1..Len(s) : s[i] = "fence"}
MinOf(S) == CHOOSE x \in S : \A y \in S : x <= y
MaxOf(S) == CHOOSE x \in S : \A y \in S : y <= x

\* responseText.match(/```(?:json)?\s*\n?([\s\S]*?)\n?```/): the first fence
\* that has a fence after it opens the block and the next fence closes it.
hasJsonBlockMatch(s) == Cardinality(FenceIndexes(s)) >= 2

\* jsonBlockMatch[1]: the interior after the optional tag and the whitespace
\* that \s* takes.
jsonBlockCapture(s) ==
    LET open == MinOf(FenceIndexes(s))
        close == MinOf(FenceIndexes(s) \ {open})
        inner == SubSeq(s, open + 1, close - 1)
        untagged == IF inner # <<>> /\ Head(inner) = "json" THEN Tail(inner) ELSE inner
    IN  trimStart(untagged)

\* responseText.match(/\{[\s\S]*\}/): greedy, the first "{" to the last "}".
hasJsonObjectMatch(s) ==
    /\ \E i \in 1..Len(s) : s[i] = "lb"
    /\ \E j \in 1..Len(s) :
           s[j] = "rb" /\ j > MinOf({i \in 1..Len(s) : s[i] = "lb"})

jsonObjectSpan(s) ==
    SubSeq(s, MinOf({i \in 1..Len(s) : s[i] = "lb"}),
              MaxOf({j \in 1..Len(s) : s[j] = "rb"}))

\* The body of the inner try: it returns, or one of its JSON.parse calls throws.
innerTry(s) ==
    IF hasJsonBlockMatch(s) /\ jsonBlockCapture(s) # <<>>
    THEN LET r == JSONparse(trim(jsonBlockCapture(s)))
         IN  IF r.ok THEN Parsed(r.value) ELSE Raised
    ELSE IF hasJsonObjectMatch(s)
    THEN LET r == JSONparse(jsonObjectSpan(s))
         IN  IF r.ok THEN Parsed(r.value) ELSE Raised
    ELSE FreeText(trim(s))

\* parseLLMResponse with the inner try's catch taken away.
parseLLMResponseNoInnerCatch(s) ==
    LET direct == JSONparse(s)
    IN  IF direct.ok THEN Parsed(direct.value) ELSE innerTry(s)

\* parseLLMResponse: JSON.parse of the whole text, its catch holding the inner
\* try, whose catch returns the last-resort record.
parseLLMResponse(s) ==
    LET direct == JSONparse(s)
    IN  IF direct.ok THEN Parsed(direct.value)
        ELSE LET inner == innerTry(s)
             IN  IF inner.kind = "throw"
                 THEN FreeText(IF trim(s) = <<>> THEN NoSolutionGenerated ELSE trim(s))
                 ELSE inner

ExtractIdle ==
    /\ epc = "idle"
    /\ responseText = <<>>
    /\ extracted = NoResult

(***************************************************************************)
(* Review response.  parseReviewResponse strips the fences, takes the      *)
(* first "[" to the last "]" and JSON.parses it; the response is modelled  *)
(* by how that ends: no bracket span ("noarray"), a span that is no JSON   *)
(* ("badjson"), or an array of items.  An item is an object with each of   *)
(* the five fields a non-empty string, the empty string or missing, or it  *)
(* is null (reading a field of null throws a TypeError).                   *)
(***************************************************************************)
SeverityValues == {"high", "medium", "low", "", UNDEF}
FieldValues == {"x", "", UNDEF}

Candidates ==
    [isNull : {FALSE}, severity : SeverityValues, category : FieldValues,
     filename : FieldValues, message : FieldValues, suggestion : FieldValues]

NullItem ==
    [isNull |-> TRUE, severity |-> UNDEF, category |-> UNDEF, filename |-> UNDEF,
     message |-> UNDEF, suggestion |-> UNDEF]

Responses ==
    {[shape |-> "noarray", items |-> <<>>], [shape |-> "badjson", items |-> <<>>]}
        \cup {[shape |-> "array", items |-> c] :
                 c \in SeqsUpTo(Candidates \cup {NullItem}, MaxCandidates)}

\* !v for a string-or-undefined v
isFalsy(v) == v = "" \/ v = UNDEF

\* The callback of findings.filter.
isValidFinding(f) ==
    IF \/ isFalsy(f.severity)
       \/ isFalsy(f.category)
       \/ isFalsy(f.filename)
       \/ isFalsy(f.message)
       \/ isFalsy(f.suggestion)
    THEN FALSE
    ELSE f.severity \in {"high", "medium"}

\* parseReviewResponse: every failure, the TypeError of a null item included,
\* ends in the catch and returns [].
parseReviewResponse(r) ==
    IF r.shape = "noarray" THEN <<>>
    ELSE IF r.shape = "badjson" THEN <<>>
    ELSE IF \E i \in 1..Len(r.items) : r.items[i].isNull THEN <<>>
    ELSE SelectSeq(r.items, isValidFinding)

ClassifyIdle ==
    /\ cpc = "idle"
    /\ response = [shape |-> "noarray", items |-> <<>>]
    /\ validFindings = <<>>

PostIdle ==
    /\ ppc = "idle"
    /\ handler = "none"
    /\ findings = <<>>
    /\ filePatches = <<>>
    /\ reviewBody = <<>>
    /\ inlineComments = <<>>
    /\ calls = <<>>
    /\ postRaised = FALSE
    /\ rejected = {}

(***************************************************************************)
(* Provider template (ApiProviderBase.generateReview).  The HTTP response  *)
(* is its status and its body; the body is modelled by the shape the       *)
(* success parsing tells apart, and is its own text:                       *)
(*   choicesContent       {"choices":[{"message":{"content":"..."}}]}      *)
(*   choicesEmptyContent  {"choices":[{"message":{"content":""}}]}         *)
(*   choicesNoMessage     {"choices":[{}]}                                 *)
(*   emptyChoices         {"choices":[]}                                   *)
(*   messageContent       {"message":{"content":"..."}}                    *)
(*   messageNoContent     {"message":{}}                                   *)
(*   otherJson            any other JSON object                            *)
(*   nullJson             null                                             *)
(*   notJson              text that is no JSON                             *)
(***************************************************************************)
HttpStatuses == {200, 201, 400, 401, 404, 429, 500, 503}
BodyShapes ==
    {"choicesContent", "choicesEmptyContent", "choicesNoMessage", "emptyChoices",
     "messageContent", "messageNoContent", "otherJson", "nullJson", "notJson"}
HttpResponses == [status : HttpStatuses, body : BodyShapes]
NoResponse == [status |-> 0, body |-> "none"]

\* response.ok
isOk(r) == r.status >= 200 /\ r.status <= 299

\* How generateReview ends.  jsonRead tells whether response.json() was called.
Generated(k, t, st, b, j) ==
    [kind |-> k, text |-> t, status |-> st, body |-> b, jsonRead |-> j]
NotGenerated == Generated("none", "", 0, "none", FALSE)
\* fetch rejected: no response at all
NetworkError == Generated("networkError", "", 0, "none", FALSE)
\* new Error(`LLM API Error (...): ${status} - ${statusText}. Response: ${errorText}`)
ApiError(r) == Generated("apiError", "", r.status, r.body, FALSE)
ReturnedText(t) == Generated("text", t, 0, "none", TRUE)
\* response.json() rejected, or data is null and data.choices throws
ParseError == Generated("parseError", "", 0, "none", TRUE)

\* The success-shape parsing, from response.json() on.
parseSuccessShape(b) ==
    IF b = "notJson" \/ b = "nullJson" THEN ParseError
    ELSE IF b = "choicesContent" THEN ReturnedText("choices[0].message.content")
    ELSE IF b = "choicesEmptyContent" THEN ReturnedText("")
    ELSE IF b = "messageContent" THEN ReturnedText("message.content")
    ELSE ReturnedText("JSON.stringify(data)")

\* generateReview after the response with the status test left out.
afterResponseNoStatusTest(r) == parseSuccessShape(r.body)

\* generateReview after the response: the status test, then the parsing.
afterResponse(r) ==
    IF ~isOk(r) THEN ApiError(r) ELSE parseSuccessShape(r.body)

ProviderIdle ==
    /\ gpc = "idle"
    /\ httpResponse = NoResponse
    /\ gRequests = 0
    /\ generated = NotGenerated

BatchIdle ==
    /\ bpc = "idle"
    /\ groups = <<>>
    /\ streaming = FALSE
    /\ groupIndex = 0
    /\ inFlight = {}
    /\ results = <<>>
    /\ streamLines = <<>>
    /\ output = <<>>
    /\ rawResponse = <<>>

ReviewIdle ==
    /\ hpc = "idle"
    /\ promptFile = "ok"
    /\ providerConfigured = TRUE
    /\ prFiles = <<>>
    /\ relevantFiles = <<>>
    /\ llmRequests = 0

LaterIdle == ProviderIdle /\ BatchIdle /\ ReviewIdle

(***************************************************************************)
(* Resolver specification: every patch and target line, then the call.     *)
(***************************************************************************)
ResolveIdle ==
    /\ rpc = "idle"
    /\ patch = <<>>
    /\ targetLine = 0
    /\ resolved = NOT_FOUND

InitResolve ==
    /\ rpc = "call"
    /\ patch \in Patches
    /\ targetLine \in Targets
    /\ resolved = NOT_FOUND
    /\ ExtractIdle
    /\ ClassifyIdle
    /\ PostIdle
    /\ LaterIdle

Resolve ==
    /\ rpc = "call"
    /\ resolved' = getPositionInDiff(patch, targetLine)
    /\ rpc' = "done"
    /\ UNCHANGED <<patch, targetLine, extractVars, classifyVars, postVars, laterVars>>

NextResolve == Resolve

SpecResolve == InitResolve /\ [][NextResolve]_vars

(***************************************************************************)
(* The resolver's contract, stated on the patch text alone.                *)
(***************************************************************************)
\* The index of the last hunk header before line i of p, 0 when there is none.
PrecedingHeader(p, i) ==
    LET hs == {j \in 1..(i - 1) : p[j].kind = "hunk"}
    IN  IF hs = {} THEN 0 ELSE CHOOSE j \in hs : \A k \in hs : k <= j

\* Line i of p is an addition or context line that follows a hunk header and is
\* new-file line L, counting the addition and context lines from that header's start.
IsNewFileLine(p, i, L) ==
    LET h == PrecedingHeader(p, i)
    IN  /\ p[i].kind \in {"add", "ctx"}
        /\ h > 0
        /\ L = p[h].start - 1
                 + Cardinality({j \in (h + 1)..i : p[j].kind \in {"add", "ctx"}})

\* p is the 1-based index of the first line of the patch that is new-file line L.
IsFirstPositionOf(p, pos, L) ==
    /\ pos \in 1..Len(p)
    /\ IsNewFileLine(p, pos, L)
    /\ \A j \in 1..(pos - 1) : ~IsNewFileLine(p, j, L)

\* C1: whenever getPositionInDiff returns a position, it is the 1-based index,
\* hunk headers counted, of the first addition or context line whose new-file
\* line number, counted from the preceding hunk header's start, is the target;
\* for a header +1,3 followed by context, addition, context, line 2 is at 3.
C1_PositionIsFirstMatchingLine ==
    rpc = "done" =>
        /\ resolved # NOT_FOUND => IsFirstPositionOf(patch, resolved, targetLine)
        /\ (patch = ScenarioPatch /\ targetLine = 2) => resolved = 3

\* C2 as stated: the scenario patch and target line 2 give position 2.
C2_ScenarioGivesTwo ==
    (rpc = "done" /\ patch = ScenarioPatch /\ targetLine = 2) => resolved = 2

\* C2 amended: the scenario patch and target line 2 give position 3 (the header
\* is position 1, the context line 2, the addition 3).
C2_ScenarioGivesThree ==
    (rpc = "done" /\ patch = ScenarioPatch /\ targetLine = 2) => resolved = 3

C2_ScenarioResolved ==
    rpc = "done" /\ patch = ScenarioPatch /\ targetLine = 2 /\ resolved # NOT_FOUND

\* C3: a line outside the new-file range [start, start + len) of every hunk
\* header of the patch resolves to NOT_FOUND.
C3_OutsideEveryHunkIsNotFound ==
    (rpc = "done" /\ ~isLineInHunk(patch, targetLine)) => resolved = NOT_FOUND

\* C4: a patch text with no hunk header line resolves to NOT_FOUND for every
\* target line, whatever other lines it holds.
C4_NoHeaderIsNotFound ==
    (rpc = "done" /\ \A i \in 1..Len(patch) : ~startsWithAt(patch[i]))
        => resolved = NOT_FOUND

(***************************************************************************)
(* Extractor specification: every response text, then the call.            *)
(***************************************************************************)
InitExtract ==
    /\ epc = "call"
    /\ responseText \in Texts
    /\ extracted = NoResult
    /\ ResolveIdle
    /\ ClassifyIdle
    /\ PostIdle
    /\ LaterIdle

Extract ==
    /\ epc = "call"
    /\ extracted' = parseLLMResponse(responseText)
    /\ epc' = "done"
    /\ UNCHANGED <<responseText, resolveVars, classifyVars, postVars, laterVars>>

NextExtract == Extract

SpecExtract == InitExtract /\ [][NextExtract]_vars

\* C5: parseLLMResponse never raises, whatever the text, and the empty text
\* gives the low-confidence free-text record.
C5_ExtractNeverRaises ==
    epc = "done" =>
        /\ extracted.kind \in {"json", "fallback"}
        /\ responseText = <<>> =>
               extracted.kind = "fallback" /\ extracted.confidence = "low"

\* A fenced block whose interior is no JSON, and no brace span to fall to.
C5_InvalidFenceHandled ==
    /\ epc = "done"
    /\ hasJsonBlockMatch(responseText)
    /\ jsonBlockCapture(responseText) # <<>>
    /\ ~JSONparse(jsonBlockCapture(responseText)).ok
    /\ extracted.kind = "fallback"

\* The three parse attempts, each on its own.
WholeAttempt(s) == JSONparse(s)
FenceAttempt(s) ==
    IF hasJsonBlockMatch(s) THEN JSONparse(jsonBlockCapture(s))
    ELSE [ok |-> FALSE, value |-> <<>>]
BraceAttempt(s) ==
    IF hasJsonObjectMatch(s) THEN JSONparse(jsonObjectSpan(s))
    ELSE [ok |-> FALSE, value |-> <<>>]

\* C6: the attempts are tried in the order whole text, fenced block, brace
\* span; the first that succeeds gives the result, a failed attempt always
\* leads to the next, and the free-text record comes only when all three fail.
C6_FirstSuccessWins ==
    epc = "done" =>
        IF WholeAttempt(responseText).ok
        THEN extracted = Parsed(WholeAttempt(responseText).value)
        ELSE IF FenceAttempt(responseText).ok
        THEN extracted = Parsed(FenceAttempt(responseText).value)
        ELSE IF BraceAttempt(responseText).ok
        THEN extracted = Parsed(BraceAttempt(responseText).value)
        ELSE extracted.kind = "fallback"

(***************************************************************************)
(* Classifier specification: every response, then the call.                *)
(***************************************************************************)
InitClassify ==
    /\ cpc = "call"
    /\ response \in Responses
    /\ validFindings = <<>>
    /\ ResolveIdle
    /\ ExtractIdle
    /\ PostIdle
    /\ LaterIdle

Classify ==
    /\ cpc = "call"
    /\ validFindings' = parseReviewResponse(response)
    /\ cpc' = "done"
    /\ UNCHANGED <<response, resolveVars, extractVars, postVars, laterVars>>

NextClassify == Classify

SpecClassify == InitClassify /\ [][NextClassify]_vars

\* Candidate c is among the findings returned.
Retained(c) == \E j \in 1..Len(validFindings) : validFindings[j] = c

\* C7: a candidate whose suggestion is undefined is dropped, and a candidate
\* whose suggestion is the empty string is retained when its severity,
\* category, filename and message are all present.  (Stated for the severities
\* high and medium, which line 202 lets through, so that a violation is one of
\* the suggestion test and not of the severity filter.)
C7_EmptySuggestionRetained ==
    (cpc = "done" /\ response.shape = "array") =>
        \A i \in 1..Len(response.items) :
            LET c == response.items[i]
            IN  /\ (~c.isNull /\ c.suggestion = UNDEF) => ~Retained(c)
                /\ (/\ \A k \in 1..Len(response.items) : ~response.items[k].isNull
                    /\ c.suggestion = ""
                    /\ c.severity \in {"high", "medium"}
                    /\ ~isFalsy(c.category)
                    /\ ~isFalsy(c.filename)
                    /\ ~isFalsy(c.message)) => Retained(c)

(***************************************************************************)
(* Review posting.  A finding is modelled by the fields the posting rule,  *)
(* the bucketing and the inline comments read: severity (a recognised      *)
(* one, an unrecognised string, or missing), filename, and line (<<>> for   *)
(* undefined, <<n>> for n).  category, message and suggestion are copied   *)
(* into the texts and decide nothing; the title and coverage lines that    *)
(* open the body are likewise left out.                                    *)
(***************************************************************************)
FindingSeverities == {"high", "medium", "low", "info", UNDEF}
FileNames == {"a.ts", "b.ts"}
FindingLines == {<<>>, <<0>>, <<2>>, <<5>>}

Findings == [severity : FindingSeverities, filename : FileNames, line : FindingLines]
FindingLists == SeqsUpTo(Findings, MaxFindings)

\* "@@ -5,0 +5,1 @@\n+line5"
HunkAtFive == <<HunkLine(5, 1), PlainLine("add")>>
ReviewPatches == {ScenarioPatch, HunkAtFive}

\* new Map(filesToReview.map(f => [f.filename, f.patch || ''])): "a.ts" has a
\* patch, "b.ts" is not among the files or is there without a patch ('').
FilePatchMaps ==
    {[f \in {"a.ts"} |-> P] : P \in ReviewPatches}
        \cup {[f \in FileNames |-> IF f = "a.ts" THEN P ELSE <<>>] : P \in ReviewPatches}

\* One piece of the body text.
BodyItem(kind, sev, count, file, ln) ==
    [item |-> kind, severity |-> sev, n |-> count, filename |-> file, line |-> ln]

\* f.line ? `:${f.line}` : ''  -- undefined and 0 show no line
lineShown(f) == IF f.line # <<>> /\ f.line[1] # 0 THEN f.line ELSE <<>>

highFindings(fs) == SelectSeq(fs, LAMBDA f : f.severity = "high")
mediumFindings(fs) == SelectSeq(fs, LAMBDA f : f.severity = "medium")
lowFindings(fs) == SelectSeq(fs, LAMBDA f : f.severity = "low")

\* The other bucket taking only the findings without a severity.
otherFindingsMissingOnly(fs) == SelectSeq(fs, LAMBDA f : isFalsy(f.severity))

otherFindings(fs) ==
    SelectSeq(fs, LAMBDA f :
        \/ isFalsy(f.severity)
        \/ (f.severity # "high" /\ f.severity # "medium" /\ f.severity # "low"))

\* One section of ReviewEngineCore's body: the heading with the count, then
\* one bullet per finding; nothing for an empty bucket.
bodySection(name, fs) ==
    IF Len(fs) > 0
    THEN <<BodyItem("section", name, Len(fs), "", <<>>)>>
             \o [i \in 1..Len(fs) |->
                    BodyItem("entry", "", 0, fs[i].filename, lineShown(fs[i]))]
    ELSE <<>>

coreBody(fs) ==
    <<BodyItem("count", "", Len(fs), "", <<>>)>>
        \o bodySection("high", highFindings(fs))
        \o bodySection("medium", mediumFindings(fs))
        \o bodySection("low", lowFindings(fs))
        \o bodySection("other", otherFindings(fs))

InlineComment(file, key, n) == [path |-> file, field |-> key, at |-> n]

\* !patch for this.filePatches.get(f.filename): not in the map, or ''.
patchMissing(m, file) == file \notin DOMAIN m \/ m[file] = <<>>

\* The callback of findings.map with the comment placed at the file line.
coreCommentAtLine(f, m) ==
    IF patchMissing(m, f.filename) THEN <<>>
    ELSE IF f.line[1] <= 0 THEN <<>>
    ELSE IF getPositionInDiff(m[f.filename], f.line[1]) = NOT_FOUND THEN <<>>
    ELSE <<InlineComment(f.filename, "position", f.line[1])>>

\* The callback of findings.map: the comment, or <<>> for null.
coreCommentFor(f, m) ==
    IF patchMissing(m, f.filename) THEN <<>>
    ELSE IF f.line[1] <= 0 THEN <<>>
    ELSE LET position == getPositionInDiff(m[f.filename], f.line[1])
         IN  IF position = NOT_FOUND THEN <<>>
             ELSE <<InlineComment(f.filename, "position", position)>>

RECURSIVE coreComments(_, _)
coreComments(fs, m) ==
    IF fs = <<>> THEN <<>>
    ELSE (IF Head(fs).line # <<>> THEN coreCommentFor(Head(fs), m) ELSE <<>>)
             \o coreComments(Tail(fs), m)

CreateComment(body) ==
    [api |-> "createComment", body |-> body, event |-> UNDEF, comments |-> <<>>]
CreateReview(body, event, comments) ==
    [api |-> "createReview", body |-> body, event |-> event, comments |-> comments]

\* The posting rule without its issue-comment branch.
corePostingAlwaysReview(fs, comments, body) ==
    IF Len(comments) = 0 /\ Len(fs) = 0
    THEN <<>>
    ELSE <<CreateReview(body,
               IF Len(highFindings(fs)) > 0 THEN "REQUEST_CHANGES" ELSE "COMMENT",
               comments)>>

\* ReviewEngineCore.postReview, "Post Review or Comment": the calls it makes.
corePosting(fs, comments, body) ==
    IF Len(comments) = 0 /\ Len(fs) > 0
    THEN <<CreateComment(body)>>
    ELSE IF Len(comments) = 0 /\ Len(fs) = 0
    THEN <<>>
    ELSE <<CreateReview(body,
               IF Len(highFindings(fs)) > 0 THEN "REQUEST_CHANGES" ELSE "COMMENT",
               comments)>>

\* comments.slice(0, 30)
MaxReviewComments == 30
slice(q, n) == SubSeq(q, 1, IF Len(q) < n THEN Len(q) ELSE n)

\* ReviewEngine.postReview: one heading per finding, in input order.
engineBody(fs) ==
    <<BodyItem("count", "", Len(fs), "", <<>>)>>
        \o [i \in 1..Len(fs) |->
               BodyItem("entry", fs[i].severity, 0, fs[i].filename, lineShown(fs[i]))]

RECURSIVE engineComments(_)
engineComments(fs) ==
    IF fs = <<>> THEN <<>>
    ELSE (IF lineShown(Head(fs)) # <<>>
          THEN <<InlineComment(Head(fs).filename, "line", Head(fs).line[1])>>
          ELSE <<>>)
             \o engineComments(Tail(fs))

(***************************************************************************)
(* Poster specification: every list of findings and patch map, then one    *)
(* of the two postReview methods; each posting call succeeds or rejects.   *)
(***************************************************************************)
InitPost ==
    /\ ppc = "call"
    /\ handler = "none"
    /\ findings \in FindingLists
    /\ filePatches \in FilePatchMaps
    /\ reviewBody = <<>>
    /\ inlineComments = <<>>
    /\ calls = <<>>
    /\ postRaised = FALSE
    /\ rejected = {}
    /\ ResolveIdle
    /\ ExtractIdle
    /\ ClassifyIdle
    /\ LaterIdle

\* ReviewEngineCore.postReview; a rejected call propagates.
CorePostReview ==
    /\ ppc = "call"
    /\ \E outcome \in {"ok", "fail"} :
           LET body == coreBody(findings)
               comments == coreComments(findings, filePatches)
               made == corePosting(findings, comments, body)
           IN  /\ reviewBody' = body
               /\ inlineComments' = comments
               /\ calls' = made
               /\ postRaised' = (made # <<>> /\ outcome = "fail")
               /\ rejected' = IF made # <<>> /\ outcome = "fail" THEN {1} ELSE {}
    /\ handler' = "core"
    /\ ppc' = "done"
    /\ UNCHANGED <<findings, filePatches, resolveVars, extractVars, classifyVars, laterVars>>

\* ReviewEngine.postReview, called by reviewPR with the non-empty result of
\* parseReviewResponse: createReview, and createComment in its catch.
EnginePostReview ==
    /\ ppc = "call"
    /\ findings # <<>>
    /\ \A i \in 1..Len(findings) : findings[i].severity \in {"high", "medium"}
    /\ \E reviewOutcome \in {"ok", "fail"}, commentOutcome \in {"ok", "fail"} :
           LET body == engineBody(findings)
               comments == engineComments(findings)
               review == CreateReview(body, "COMMENT", slice(comments, MaxReviewComments))
           IN  /\ reviewBody' = body
               /\ inlineComments' = comments
               /\ calls' = IF reviewOutcome = "ok"
                           THEN <<review>>
                           ELSE <<review, CreateComment(body)>>
               /\ postRaised' = (reviewOutcome = "fail" /\ commentOutcome = "fail")
               /\ rejected' = IF reviewOutcome = "ok" THEN {}
                              ELSE IF commentOutcome = "ok" THEN {1}
                              ELSE {1, 2}
    /\ handler' = "engine"
    /\ ppc' = "done"
    /\ UNCHANGED <<findings, filePatches, resolveVars, extractVars, classifyVars, laterVars>>

\* The body of the event handler's error comment.
ErrorBody == <<BodyItem("AI Code Review Error", "", 0, "", <<>>)>>

\* await context.octokit.issues.createComment({..., body})
PostComment(body, outcome) ==
    /\ calls' = Append(calls, CreateComment(body))
    /\ rejected' = IF outcome = "fail" THEN rejected \cup {Len(calls) + 1} ELSE rejected

\* An error postReview let through reaches the catch of the event handler,
\* which posts the error comment.
PostCaught ==
    /\ hpc = "idle"
    /\ ppc = "done"
    /\ postRaised
    /\ \E outcome \in {"ok", "fail"} : PostComment(ErrorBody, outcome)
    /\ ppc' = "caught"
    /\ UNCHANGED <<handler, findings, filePatches, reviewBody, inlineComments, postRaised,
                   resolveVars, extractVars, classifyVars, laterVars>>

NextPost == CorePostReview \/ EnginePostReview \/ PostCaught

SpecPost == InitPost /\ [][NextPost]_vars

\* The findings whose inline comment can be placed: a defined line above 0, a
\* patch for the file, and a position in it.
Resolvable(fs, m) ==
    {i \in 1..Len(fs) :
        /\ fs[i].line # <<>>
        /\ fs[i].line[1] > 0
        /\ fs[i].filename \in DOMAIN m
        /\ m[fs[i].filename] # <<>>
        /\ getPositionInDiff(m[fs[i].filename], fs[i].line[1]) # NOT_FOUND}

\* C8: ReviewEngineCore.postReview makes at most one posting call: none for no
\* findings, createComment (never createReview) for findings none of which is
\* resolvable, createReview (never createComment) when one is resolvable; so
\* createReview never gets an empty comment list.
C8_OnePostingCallByRule ==
    (ppc = "done" /\ handler = "core") =>
        /\ Len(calls) <= 1
        /\ findings = <<>> => calls = <<>>
        /\ (findings # <<>> /\ Resolvable(findings, filePatches) = {}) =>
               (Len(calls) = 1 /\ calls[1].api = "createComment")
        /\ Resolvable(findings, filePatches) # {} =>
               (Len(calls) = 1 /\ calls[1].api = "createReview")
        /\ \A k \in 1..Len(calls) :
               calls[k].api = "createReview" => calls[k].comments # <<>>

\* Findings, none resolvable: the issue comment was posted.
C8_FallbackCommentPosted ==
    /\ ppc = "done"
    /\ handler = "core"
    /\ findings # <<>>
    /\ Resolvable(findings, filePatches) = {}
    /\ Len(calls) = 1
    /\ calls[1].api = "createComment"

\* The severity bucket of a finding.
Bucket(f) == IF f.severity \in {"high", "medium", "low"} THEN f.severity ELSE "other"

\* The section an item of the body is in: the last heading before it.
SectionAt(body, j) ==
    LET hs == {k \in 1..(j - 1) : body[k].item = "section"}
    IN  IF hs = {} THEN "" ELSE body[MaxOf(hs)].severity

\* The bullets of the body that show finding f, in the section of f's bucket.
BulletsOf(body, f) ==
    {j \in 1..Len(body) :
        /\ body[j].item = "entry"
        /\ body[j].filename = f.filename
        /\ body[j].line = lineShown(f)
        /\ SectionAt(body, j) = Bucket(f)}

\* The findings that show as f does and are in f's bucket.
ShownAlike(fs, f) ==
    {i \in 1..Len(fs) :
        /\ fs[i].filename = f.filename
        /\ lineShown(fs[i]) = lineShown(f)
        /\ Bucket(fs[i]) = Bucket(f)}

UnresolvableHigh == <<[severity |-> "high", filename |-> "a.ts", line |-> <<5>>]>>

\* C9: every finding passed to ReviewEngineCore.postReview is in the body
\* exactly once, in the section of its severity bucket, resolvable or not; a
\* single high finding at line 5 that the patch cannot place gives a body with
\* the finding, no inline comment and the issue-comment path.
C9_EveryFindingOnceInItsBucket ==
    (ppc = "done" /\ handler = "core") =>
        /\ \A i \in 1..Len(findings) :
               Cardinality(BulletsOf(reviewBody, findings[i]))
                   = Cardinality(ShownAlike(findings, findings[i]))
        /\ Cardinality({j \in 1..Len(reviewBody) : reviewBody[j].item = "entry"})
               = Len(findings)
        /\ (findings = UnresolvableHigh /\ Resolvable(findings, filePatches) = {}) =>
               /\ Cardinality(BulletsOf(reviewBody, findings[1])) = 1
               /\ inlineComments = <<>>
               /\ calls = <<CreateComment(reviewBody)>>

C9_UnresolvableHighPosted ==
    /\ ppc = "done"
    /\ handler = "core"
    /\ findings = UnresolvableHigh
    /\ filePatches["a.ts"] = ScenarioPatch
    /\ Len(calls) = 1
    /\ calls[1].api = "createComment"

\* C10: whenever a review object is posted, its event is REQUEST_CHANGES if a
\* finding has severity high, and COMMENT otherwise.
C10_EventFollowsHighSeverity ==
    ppc = "done" =>
        \A k \in 1..Len(calls) :
            calls[k].api = "createReview" =>
                calls[k].event =
                    IF \E i \in 1..Len(findings) : findings[i].severity = "high"
                    THEN "REQUEST_CHANGES"
                    ELSE "COMMENT"

(***************************************************************************)
(* Provider specification: one generateReview call.  fetch is rejected or  *)
(* resolves with a response; the body of a response can be read.           *)
(***************************************************************************)
InitProvider ==
    /\ gpc = "call"
    /\ httpResponse = NoResponse
    /\ gRequests = 0
    /\ generated = NotGenerated
    /\ ResolveIdle
    /\ ExtractIdle
    /\ ClassifyIdle
    /\ PostIdle
    /\ BatchIdle
    /\ ReviewIdle

\* await fetch(url, ...): rejected.
ProviderFetchRejected ==
    /\ gpc = "call"
    /\ gRequests' = gRequests + 1
    /\ generated' = NetworkError
    /\ gpc' = "done"
    /\ UNCHANGED <<httpResponse, resolveVars, extractVars, classifyVars, postVars, batchVars,
                   reviewVars>>

\* await fetch(url, ...): a response.
ProviderFetchResolved ==
    /\ gpc = "call"
    /\ gRequests' = gRequests + 1
    /\ httpResponse' \in HttpResponses
    /\ gpc' = "received"
    /\ UNCHANGED <<generated, resolveVars, extractVars, classifyVars, postVars, batchVars,
                   reviewVars>>

\* The rest of generateReview.
ProviderFinish ==
    /\ gpc = "received"
    /\ generated' = afterResponse(httpResponse)
    /\ gpc' = "done"
    /\ UNCHANGED <<httpResponse, gRequests, resolveVars, extractVars, classifyVars, postVars,
                   batchVars, reviewVars>>

NextProvider == ProviderFetchRejected \/ ProviderFetchResolved \/ ProviderFinish

SpecProvider == InitProvider /\ [][NextProvider]_vars

\* C11: a response with a non-success status ends generateReview in a raised
\* error carrying the status and the body text, never in a returned text; the
\* success parsing is reached only for a success status; and one call issues
\* exactly one HTTP request.
C11_NonSuccessRaisesWithStatusAndBody ==
    /\ gRequests <= 1
    /\ gpc = "done" =>
           /\ gRequests = 1
           /\ (httpResponse # NoResponse /\ ~(httpResponse.status \in 200..299)) =>
                  /\ generated.kind = "apiError"
                  /\ generated.status = httpResponse.status
                  /\ generated.body = httpResponse.body
           /\ generated.jsonRead => httpResponse.status \in 200..299
           /\ generated.kind = "text" => httpResponse.status \in 200..299

C11_ErrorStatusRaised ==
    /\ gpc = "done"
    /\ httpResponse.status = 500
    /\ httpResponse.body = "choicesContent"
    /\ generated.kind = "apiError"

(***************************************************************************)
(* Batch engine (analyzeWithAnalyser).  A streamed body is modelled by the *)
(* lines text.trim().split("\n") gives; a line is                          *)
(*   fragment   an object whose response member is a non-empty text        *)
(*   bare       an object without a response member, or with an empty one  *)
(*   null       the literal null: JSON.parse returns, obj.response throws  *)
(*   partial    text that is no JSON (a cut object, an empty line)         *)
(* and a fragment's text is made of the tokens of the response text.       *)
(***************************************************************************)
MaxGroups == 2
MaxStreamLines == 3

GroupCodes == {"TS2304", "TS2345"}
ErrorGroups == SeqsUpTo(GroupCodes, MaxGroups)

Fragments == {<<"lb">>, <<"val">>, <<"rb">>}
StreamLine(k, t) == [kind |-> k, text |-> t]
StreamLineKinds ==
    {StreamLine("fragment", t) : t \in Fragments}
        \cup {StreamLine("bare", <<>>), StreamLine("null", <<>>), StreamLine("partial", <<>>)}
StreamBodies == SeqsUpTo(StreamLineKinds, MaxStreamLines) \ {<<>>}

\* The body of a non-streamed answer: response.json() and data.response.
PlainTexts ==
    {<<"lb", "val", "rb">>, <<"val">>, <<"word">>, <<"fence", "lb", "rb", "fence">>}
PlainData(s, t) == [shape |-> s, response |-> t]
PlainBodies ==
    {PlainData("notJson", <<>>), PlainData("nullJson", <<>>), PlainData("object", <<>>)}
        \cup {PlainData("object", t) : t \in PlainTexts}

\* What a parsed value holds where its text leaves it open: the literal null,
\* an object with a confidence member, or neither.
ValueMembers == {"null", "confidence", "other"}

\* The errors the try block raises: name, message, and whether the message
\* holds "timeout".
Thrown(n, m, t) == [name |-> n, message |-> m, timeoutInMessage |-> t]
TimeoutError == Thrown("TimeoutError", "The operation was aborted due to timeout", TRUE)
NetworkFailure == Thrown("TypeError", "fetch failed", FALSE)
\* new Error(`Ollama API error: ${response.status} - ${text}`)
OllamaApiError(bodyHoldsTimeout) == Thrown("Error", "Ollama API error", bodyHoldsTimeout)
NullDereference == Thrown("TypeError", "Cannot read properties of null", FALSE)
JsonSyntaxError == Thrown("SyntaxError", "Unexpected token", FALSE)

isTimeout(e) == e.name = "TimeoutError" \/ e.timeoutInMessage

FixResult(g, c, t) ==
    [group |-> g, confidence |-> c, fixType |-> t, description |-> "response"]
\* errorFixResult of the catch block
ErrorFixResult(g, e) ==
    [group |-> g, confidence |-> "low", fixType |-> "manual",
     description |-> IF isTimeout(e) THEN "Request timed out after 300 seconds"
                     ELSE e.message]

\* The streaming loop with a failing line ending the loop.
RECURSIVE collectUntilFailure(_, _)
collectUntilFailure(body, out) ==
    IF body = <<>> THEN out
    ELSE IF Head(body).kind \in {"partial", "null"} THEN out
    ELSE collectUntilFailure(Tail(body),
             IF Head(body).kind = "fragment" THEN out \o Head(body).text ELSE out)

\* for (const line of lines) { try { obj = JSON.parse(line);
\*   if (obj.response) output += obj.response } catch {} }
RECURSIVE collect(_, _)
collect(body, out) ==
    IF body = <<>> THEN out
    ELSE LET first == Head(body)
             parsedLine == first.kind # "partial"
             raisedInTry == ~parsedLine \/ first.kind = "null"
         IN  collect(Tail(body),
                 IF ~raisedInTry /\ first.text # <<>> THEN out \o first.text ELSE out)

\* x || 'No solution generated'
orNoSolution(t) == IF t = <<>> THEN NoSolutionGenerated ELSE t

\* x || d for an optional field
orDefault(x, d) == IF x = UNDEF \/ x = "" THEN d ELSE x

\* parseLLMResponse and the fixResult built from it, or the TypeError of
\* parsed.confidence on a null.
fixOrError(g, raw, member) ==
    LET parsed == parseLLMResponse(raw)
    IN  IF parsed.kind = "json" /\ parsed.value = <<"val">> /\ member = "null"
        THEN ErrorFixResult(g, NullDereference)
        ELSE IF parsed.kind = "json" /\ Len(parsed.value) > 2 /\ member = "confidence"
        THEN FixResult(g, "high", "suggestion")
        ELSE FixResult(g, orDefault(parsed.confidence, "medium"),
                          orDefault(parsed.fixType, "suggestion"))

\* The catch block with the push left out.
caughtNoPush(rs, g, e) == rs

\* The catch block: results.push({ group, fix: errorFixResult }).
caught(rs, g, e) == Append(rs, ErrorFixResult(g, e))

\* The pending request of a group with the await not waiting for it.
settleKeepsPending(pending, g) == pending

\* await fetch(...) is over: the request of the group is no longer pending.
settle(pending, g) == pending \ {g}

InitBatch ==
    /\ bpc = "loop"
    /\ groups \in ErrorGroups
    /\ streaming \in BOOLEAN
    /\ groupIndex = 1
    /\ inFlight = {}
    /\ results = <<>>
    /\ streamLines = <<>>
    /\ output = <<>>
    /\ rawResponse = <<>>
    /\ ResolveIdle
    /\ ExtractIdle
    /\ ClassifyIdle
    /\ PostIdle
    /\ ProviderIdle
    /\ ReviewIdle

otherThanBatch ==
    <<resolveVars, extractVars, classifyVars, postVars, providerVars, reviewVars>>

\* i < groups.length, the prompt, and fetch(`${config.ollamaHost}/api/generate`).
\* lines, output and rawResponse are locals of the loop body: a new iteration
\* starts without them.
BatchSend ==
    /\ bpc = "loop"
    /\ groupIndex <= Len(groups)
    /\ inFlight' = inFlight \cup {groupIndex}
    /\ streamLines' = <<>>
    /\ output' = <<>>
    /\ rawResponse' = <<>>
    /\ bpc' = "waiting"
    /\ UNCHANGED <<groups, streaming, groupIndex, results, otherThanBatch>>

\* The steps every end of the try statement shares: the request is over, i++.
BatchNextGroup ==
    /\ inFlight' = settle(inFlight, groupIndex)
    /\ groupIndex' = groupIndex + 1
    /\ bpc' = "loop"
    /\ UNCHANGED <<groups, streaming, otherThanBatch>>

\* fetch rejects: the 300 s AbortSignal.timeout, or a network failure.
BatchFetchRejected ==
    /\ bpc = "waiting"
    /\ \E e \in {TimeoutError, NetworkFailure} :
           results' = caught(results, groups[groupIndex], e)
    /\ UNCHANGED <<streamLines, output, rawResponse>>
    /\ BatchNextGroup

\* !response.ok
BatchBadStatus ==
    /\ bpc = "waiting"
    /\ \E bodyHoldsTimeout \in BOOLEAN :
           results' = caught(results, groups[groupIndex], OllamaApiError(bodyHoldsTimeout))
    /\ UNCHANGED <<streamLines, output, rawResponse>>
    /\ BatchNextGroup

\* A success status with config.streaming set.
BatchStreamed ==
    /\ bpc = "waiting"
    /\ streaming
    /\ \E body \in StreamBodies, member \in ValueMembers :
           /\ streamLines' = body
           /\ output' = collect(body, <<>>)
           /\ rawResponse' = orNoSolution(collect(body, <<>>))
           /\ results' = Append(results,
                  fixOrError(groups[groupIndex], orNoSolution(collect(body, <<>>)), member))
    /\ BatchNextGroup

\* A success status without streaming: response.json(), data.response.
BatchPlain ==
    /\ bpc = "waiting"
    /\ ~streaming
    /\ \E data \in PlainBodies, member \in ValueMembers :
           /\ streamLines' = <<>>
           /\ output' = <<>>
           /\ IF data.shape = "notJson"
              THEN /\ rawResponse' = <<>>
                   /\ results' = caught(results, groups[groupIndex], JsonSyntaxError)
              ELSE IF data.shape = "nullJson"
              THEN /\ rawResponse' = <<>>
                   /\ results' = caught(results, groups[groupIndex], NullDereference)
              ELSE /\ rawResponse' = orNoSolution(data.response)
                   /\ results' = Append(results,
                          fixOrError(groups[groupIndex], orNoSolution(data.response), member))
    /\ BatchNextGroup

\* return { fixes: results }
BatchReturn ==
    /\ bpc = "loop"
    /\ groupIndex > Len(groups)
    /\ streamLines' = <<>>
    /\ output' = <<>>
    /\ rawResponse' = <<>>
    /\ bpc' = "done"
    /\ UNCHANGED <<groups, streaming, groupIndex, inFlight, results, otherThanBatch>>

NextBatch ==
    \/ BatchSend
    \/ BatchFetchRejected
    \/ BatchBadStatus
    \/ BatchStreamed
    \/ BatchPlain
    \/ BatchReturn

SpecBatch == InitBatch /\ [][NextBatch]_vars

\* The fix the catch block builds.
IsManualFix(f) == f.confidence = "low" /\ f.fixType = "manual"

\* The fixes pushed are those of the groups done so far, in input order, and
\* the returned list has one fix per input group.
C12_ResultsFollowGroups ==
    /\ bpc \in {"loop", "done"} => Len(results) = groupIndex - 1
    /\ bpc = "waiting" => Len(results) = groupIndex - 1 /\ groupIndex <= Len(groups)
    /\ \A k \in 1..Len(results) : results[k].group = groups[k]
    /\ bpc = "done" => Len(results) = Len(groups)

\* The step that ends a request by a timeout, a network failure or a
\* non-success status appends a low-confidence manual fix for the group in hand,
\* leaves the earlier fixes as they were and goes on to the next group.
C12_FailedRequestGivesManualFix ==
    (BatchFetchRejected \/ BatchBadStatus) =>
        /\ Len(results') = Len(results) + 1
        /\ SubSeq(results', 1, Len(results)) = results
        /\ IsManualFix(results'[Len(results')])
        /\ results'[Len(results')].group = groups[groupIndex]
        /\ groupIndex' = groupIndex + 1
        /\ bpc' = "loop"

\* C12: analyzeWithAnalyser returns exactly one fix per input group, in input
\* order, whatever the outcomes of the groups; a request that timed out, failed
\* at the network level or got a non-success status gives a low-confidence
\* manual fix, and the groups after it are still processed.
C12_OneFixPerGroupInOrder ==
    /\ []C12_ResultsFollowGroups
    /\ [][C12_FailedRequestGivesManualFix]_vars

C12_LaterGroupAfterFailure ==
    /\ bpc = "done"
    /\ Len(groups) = 2
    /\ groups[1] # groups[2]
    /\ IsManualFix(results[1])
    /\ results[1].description = "Request timed out after 300 seconds"
    /\ ~IsManualFix(results[2])

\* The text fragment a line gives.
TextOf(l) == IF l.kind = "fragment" THEN l.text ELSE <<>>

RECURSIVE ConcatTexts(_)
ConcatTexts(body) ==
    IF body = <<>> THEN <<>> ELSE TextOf(Head(body)) \o ConcatTexts(Tail(body))

LineParses(l) == l.kind # "partial"

\* C15: in streaming mode the text extracted from a body is the concatenation,
\* in line order, of the fragments of the lines that parse; the lines that fail
\* to parse add nothing and take nothing away.  An empty concatenation is
\* replaced by 'No solution generated' before parseLLMResponse.
C15_OutputIsConcatenationOfParsedLines ==
    streamLines # <<>> =>
        /\ output = ConcatTexts(SelectSeq(streamLines, LineParses))
        /\ rawResponse = IF output = <<>> THEN NoSolutionGenerated ELSE output

C15_FailingLineSkipped ==
    /\ streamLines =
           <<StreamLine("fragment", <<"lb">>), StreamLine("partial", <<>>),
             StreamLine("fragment", <<"rb">>)>>
    /\ output = <<"lb", "rb">>
    /\ results[Len(results)].description = "response"

(***************************************************************************)
(* Event handler and review cycle (index.ts handler, ReviewEngine.reviewPR).*)
(* The ReviewEngine the handler constructs is the class of review-engine.ts.*)
(* A listed file is modelled by its name and its number of changes.        *)
(***************************************************************************)
MaxFiles == 2
MaxFilesReviewed == 10
MaxChanges == 500

PromptFiles == {"ok", "missing", "small", "unreadable"}
PRFileNames == {"a.ts", "yarn.lock"}
PRFiles == [filename : PRFileNames, changes : {1, MaxChanges}]
PRFileLists == SeqsUpTo(PRFiles, MaxFiles)

\* ignorePatterns.some(pattern => pattern.test(f.filename))
isIgnored(f) == f.filename = "yarn.lock"

keepFile(f) == ~isIgnored(f) /\ f.changes < MaxChanges

filterFiles(files) == slice(SelectSeq(files, keepFile), MaxFilesReviewed)

\* What parseReviewResponse can return: findings of severity high or medium.
ReviewResults ==
    {fs \in FindingLists :
        \A i \in 1..Len(fs) : fs[i].severity \in {"high", "medium"}}

NoFilesBody == <<BodyItem("No files to review", "", 0, "", <<>>)>>
NoIssuesBody == <<BodyItem("No significant issues found", "", 0, "", <<>>)>>
InitReview ==
    /\ hpc = "event"
    /\ promptFile \in PromptFiles
    /\ providerConfigured \in BOOLEAN
    /\ prFiles \in PRFileLists
    /\ relevantFiles = <<>>
    /\ llmRequests = 0
    /\ ResolveIdle
    /\ ExtractIdle
    /\ ClassifyIdle
    /\ PostIdle
    /\ ProviderIdle
    /\ BatchIdle

otherThanReview == <<resolveVars, extractVars, classifyVars, providerVars, batchVars>>
reviewInputs == <<promptFile, providerConfigured, prFiles>>
postingState == <<ppc, handler, findings, filePatches, reviewBody, inlineComments, postRaised>>

\* configLoader.getLLMProvider() and new ReviewEngine(...): the provider lookup
\* throws, the constructor ends the process, or the engine is there.
HandlerCreateEngine ==
    /\ hpc = "event"
    /\ hpc' = IF ~providerConfigured THEN "raised"
              ELSE IF promptFile # "ok" THEN "exited"
              ELSE "engine"
    /\ UNCHANGED <<reviewInputs, relevantFiles, llmRequests, postVars, otherThanReview>>

\* context.octokit.pulls.listFiles and filterFiles
ReviewListFiles ==
    /\ hpc = "engine"
    /\ \E outcome \in {"ok", "fail"} :
           IF outcome = "ok"
           THEN /\ relevantFiles' = filterFiles(prFiles)
                /\ hpc' = "listed"
           ELSE /\ relevantFiles' = relevantFiles
                /\ hpc' = "raised"
    /\ UNCHANGED <<reviewInputs, llmRequests, postVars, otherThanReview>>

\* relevantFiles.length === 0: the 'No files to review' comment, return.
ReviewNoFiles ==
    /\ hpc = "listed"
    /\ relevantFiles = <<>>
    /\ \E outcome \in {"ok", "fail"} :
           /\ PostComment(NoFilesBody, outcome)
           /\ hpc' = IF outcome = "ok" THEN "done" ELSE "raised"
    /\ UNCHANGED <<reviewInputs, relevantFiles, llmRequests, postingState, otherThanReview>>

\* this.generateReview(pr, relevantFiles): one llm.generateReview(prompt), then
\* parseReviewResponse; an error of the provider is rethrown.
ReviewGenerate ==
    /\ hpc = "listed"
    /\ relevantFiles # <<>>
    /\ llmRequests' = llmRequests + 1
    /\ \/ /\ hpc' = "raised"
          /\ UNCHANGED <<findings, ppc>>
       \/ /\ findings' \in ReviewResults
          /\ ppc' = IF findings' = <<>> THEN ppc ELSE "call"
          /\ hpc' = "reviewed"
    /\ UNCHANGED <<reviewInputs, relevantFiles, handler, filePatches, reviewBody,
                   inlineComments, calls, postRaised, rejected, otherThanReview>>

\* review.length === 0: the 'No significant issues found' comment.
ReviewNoIssues ==
    /\ hpc = "reviewed"
    /\ findings = <<>>
    /\ \E outcome \in {"ok", "fail"} :
           /\ PostComment(NoIssuesBody, outcome)
           /\ hpc' = IF outcome = "ok" THEN "done" ELSE "raised"
    /\ UNCHANGED <<reviewInputs, relevantFiles, llmRequests, postingState, otherThanReview>>

\* this.postReview(...) is over: reviewPR returns or rethrows.
ReviewPosted ==
    /\ hpc = "reviewed"
    /\ ppc = "done"
    /\ hpc' = IF postRaised THEN "raised" ELSE "done"
    /\ UNCHANGED <<reviewInputs, relevantFiles, llmRequests, postVars, otherThanReview>>

\* The handler's catch: the error comment.
HandlerCatch ==
    /\ hpc = "raised"
    /\ \E outcome \in {"ok", "fail"} :
           /\ PostComment(ErrorBody, outcome)
           /\ hpc' = IF outcome = "ok" THEN "done" ELSE "unhandled"
    /\ UNCHANGED <<reviewInputs, relevantFiles, llmRequests, postingState, otherThanReview>>

NextReview ==
    \/ HandlerCreateEngine
    \/ ReviewListFiles
    \/ ReviewNoFiles
    \/ ReviewGenerate
    \/ ReviewNoIssues
    \/ EnginePostReview
    \/ ReviewPosted
    \/ HandlerCatch

SpecReview == InitReview /\ [][NextReview]_vars

\* The ends of an event: the handler returned, the handler's own catch raised,
\* or the process was ended.
EventOver == hpc \in {"done", "unhandled", "exited"}

\* C18: every handled pull-request event ends with at least one posting call
\* attempted; without relevant files no model request is made; and the handler
\* ends in an unhandled error only when a createComment was rejected.
C18_EveryEventEndsWithPosting ==
    /\ EventOver => calls # <<>>
    /\ (hpc \in {"listed", "done"} /\ relevantFiles = <<>>) => llmRequests = 0
    /\ hpc = "unhandled" =>
           \E k \in rejected : calls[k].api = "createComment"

\* The same with the prompt file in place.
C18_PostingWhenEngineConstructed ==
    promptFile = "ok" => C18_EveryEventEndsWithPosting

\* Posting is over: postReview returned, or its error went through the
\* handler's catch.
PostingOver == ppc = "caught" \/ (ppc = "done" /\ ~postRaised)

\* C14: whenever a createReview call was rejected, a createComment call with
\* the same body text follows it.
C14_FailedReviewFallsBackToSameBody ==
    PostingOver =>
        \A k \in rejected :
            calls[k].api = "createReview" =>
                \E j \in (k + 1)..Len(calls) :
                    /\ calls[j].api = "createComment"
                    /\ calls[j].body = calls[k].body

\* The same for ReviewEngine.postReview alone.
C14_EngineFallsBackToSameBody ==
    handler = "engine" => C14_FailedReviewFallsBackToSameBody

(***************************************************************************)
(* The model requests of both engines: a batch run or a review cycle.      *)
(***************************************************************************)
InitRequests == InitBatch \/ InitReview

NextRequests == NextBatch \/ NextReview

SpecRequests == InitRequests /\ [][NextRequests]_vars

\* C13: at most one model request is pending at any time; a pending request is
\* that of the group in hand, with every earlier group already answered by a
\* fix; at the head of the loop, where the next request is issued, none is
\* pending; and a review cycle issues at most one model request.
C13_SingleOutstandingRequest ==
    /\ Cardinality(inFlight) <= 1
    /\ \A g \in inFlight :
           /\ bpc = "waiting"
           /\ g = groupIndex
           /\ Len(results) = g - 1
    /\ bpc \in {"loop", "done"} => inFlight = {}
    /\ llmRequests <= 1

C13_SecondRequestAfterFirst ==
    /\ bpc = "waiting"
    /\ inFlight = {2}
    /\ Len(results) = 1

\* The place of finding i among the findings in R.
Rank(R, i) == Cardinality({j \in R : j <= i})

\* The inline comments are those of the resolvable findings, in input order,
\* each on the finding's file at the position getPositionInDiff gives.
C16_CommentsMatchResolvable ==
    (handler = "core" /\ ppc \in {"done", "caught"}) =>
        LET R == Resolvable(findings, filePatches)
        IN  /\ Len(inlineComments) = Cardinality(R)
            /\ \A i \in R :
                   LET c == inlineComments[Rank(R, i)]
                   IN  /\ c.path = findings[i].filename
                       /\ c.field = "position"
                       /\ c.at = getPositionInDiff(filePatches[findings[i].filename],
                                                   findings[i].line[1])
                       /\ c.at >= 1

AllRequiredPresent(c) ==
    /\ ~c.isNull
    /\ ~isFalsy(c.severity)
    /\ ~isFalsy(c.category)
    /\ ~isFalsy(c.filename)
    /\ ~isFalsy(c.message)
    /\ ~isFalsy(c.suggestion)

\* C17: parseReviewResponse drops a candidate only for a missing required
\* field: the findings returned for an array of candidates are the candidates
\* with all five fields present, whatever their severity, in input order.
\* (Stated for arrays without a null item and with "present" as non-empty, so
\* that a violation is one of the severity filter.)
C17_OnlyMissingFieldDrops ==
    (/\ cpc = "done"
     /\ response.shape = "array"
     /\ \A k \in 1..Len(response.items) : ~response.items[k].isNull) =>
        validFindings = SelectSeq(response.items, AllRequiredPresent)

====
